---- MODULE Spec2Model ----
(***************************************************************************)
(* Model of the job-submission scripts of the repository:                  *)
(*   src/run_jobs.py       setup_jobs, adjust_job_paths (CML submission)   *)
(*   src/test_run_jobs.py  test_run_jobs (local runner)                    *)
(*                                                                         *)
(* Python dicts are TLA+ functions whose DOMAIN is the set of keys that    *)
(* are present ("k in d" is k \in DOMAIN d).  A dict that must keep its    *)
(* insertion order (the jobs mapping) is a record [order, defs].  A script *)
(* path is the sequence of its pieces, so that str.startswith and          *)
(* str.replace on the piece "template/" can be computed.                   *)
(***************************************************************************)
EXTENDS Integers, Sequences, FiniteSets, TLC

VARIABLES
    prog,         \* which script runs: "setup_jobs" or "test_run_jobs"
    environ,      \* os.environ after load_dotenv
    template_dir, \* run_jobs.py:18
    attrsPreset,  \* does a new cmlapi.CreateJobRequest hold its attributes (as None)?
    fs,           \* the jobs_config.yaml files on disk: location -> content
    config_path,  \* the location load_config chose ("" before it ran)
    exit_status,  \* the exit status of the process (-1 while it runs)
    JOBS_CONFIG,  \* the loaded jobs mapping (JOBS_CONFIG / jobs_config)
    pc,           \* position in the running function
    idx,          \* position of the for loop in its iteration order
    job_key,      \* the job being processed
    job_body,     \* the CreateJobRequest being built: attribute -> value
    job_id_map,   \* run_jobs.py:121
    processed,    \* job keys in the order their processing began
    calls,        \* client.create_job calls made: [key, body, ok, id]
    starts,       \* client.start_job calls made: [id, ok]
    warnings,     \* warnings printed: [kind, key]
    errors,       \* "Error creating ..." messages printed: job keys
    job_order,    \* test_run_jobs.py:108
    job_results,  \* test_run_jobs.py:105
    result        \* what the function returned / raised

vars == <<prog, environ, template_dir, attrsPreset, fs, config_path,
          exit_status, JOBS_CONFIG,
          pc, idx, job_key, job_body, job_id_map, processed, calls, starts,
          warnings, errors, job_order, job_results, result>>

-----------------------------------------------------------------------------
(* Bounds *)

\* The largest number of jobs in a configuration.
MaxJobs == 2

-----------------------------------------------------------------------------
(* Python helpers *)

\* d.get(k, default)
Get(d, k, default) == IF k \in DOMAIN d THEN d[k] ELSE default

\* d[k] = v on a dict
DictSet(d, k, v) == [x \in (DOMAIN d) \cup {k} |-> IF x = k THEN v ELSE d[x]]

EmptyDict == [x \in {} |-> x]

Digit == <<"0", "1", "2", "3", "4", "5", "6", "7", "8", "9">>

\* str(n) of a non-negative int
RECURSIVE IntStr(_)
IntStr(n) == IF n < 10 THEN Digit[n + 1]
             ELSE IntStr(n \div 10) \o Digit[(n % 10) + 1]

\* The elements of a sequence
Range(s) == {s[i] : i \in DOMAIN s}

\* Position of the first occurrence of k in sequence s (0 when absent)
RECURSIVE IndexOf(_, _)
IndexOf(s, k) ==
    IF s = <<>> THEN 0
    ELSE IF Head(s) = k THEN 1
    ELSE LET r == IndexOf(Tail(s), k) IN IF r = 0 THEN 0 ELSE r + 1

-----------------------------------------------------------------------------
(* Inputs: the job definitions a configuration may hold *)

BOOTSTRAP == "create_env"

JobKeys == {"create_env", "job_a", "job_b"}

CustomEnv == [TEMPLATE_DIR |-> "custom"]
XEnv == [X |-> "1"]

\* Definitions drawn for the key "create_env"
CreateEnvDefs ==
    { [name |-> "Create Environment",
       script |-> <<"template/", "scripts/", "create_environment.py">>],
      [name |-> "Create Environment",
       script |-> <<"template/", "scripts/", "create_environment.py">>,
       runtime_id |-> 7, environment |-> XEnv, schedule |-> "0 0 * * *",
       attachments |-> <<"report/1.txt">>, parent_job_id |-> "job_a"],
      [name |-> "Create Environment",
       script |-> <<"scripts/", "create_environment.py">>,
       cpu |-> 2, memory |-> 4, timeout |-> 60, kernel |-> "r",
       nvidia_gpu |-> 1, arguments |-> "--fresh",
       environment |-> CustomEnv] }

\* Definitions drawn for the key "job_a"
JobADefs ==
    { [name |-> "Job A", script |-> <<"template/", "scripts/", "a.py">>,
       cpu |-> 2],
      [name |-> "Job A", script |-> <<"template/", "scripts/", "a.py">>,
       cpu |-> 2, memory |-> 4, timeout |-> 60, kernel |-> "r",
       runtime_id |-> 7, nvidia_gpu |-> 1, arguments |-> "arg1 arg2",
       environment |-> XEnv, attachments |-> <<"report/1.txt">>,
       parent_job_id |-> "create_env"],
      [name |-> "Job A", script |-> <<"my", "template/", "template/", "a.py">>,
       runtime_id |-> 7, environment |-> XEnv, parent_job_id |-> "job_b"],
      [name |-> "Job A", script |-> <<"template/", "scripts/", "a.py">>,
       runtime_id |-> 7, environment |-> XEnv, schedule |-> "* * * * 5",
       parent_job_id |-> "create_env"],
      [name |-> "Job A", script |-> <<"scripts/", "a.py">>,
       environment |-> XEnv, parent_job_id |-> "job_a"] }

\* Definitions drawn for the key "job_b"
JobBDefs ==
    { [name |-> "Job B", script |-> <<"template/", "scripts/", "b.py">>],
      [name |-> "Job B", script |-> <<"template/", "scripts/", "b.py">>,
       runtime_id |-> 7, environment |-> XEnv, parent_job_id |-> "job_a"],
      [name |-> "Job B", script |-> <<"template/", "template/", "b.py">>,
       runtime_id |-> 7, environment |-> CustomEnv,
       parent_job_id |-> "ghost"],
      [name |-> "Job B", script |-> <<"scripts/", "b.py">>,
       memory |-> 4, environment |-> XEnv, parent_job_id |-> "create_env"],
      [name |-> "Job B", script |-> <<"scripts/", "b.py">>,
       runtime_id |-> 7, parent_job_id |-> "job_a"],
      [name |-> "Job B", script |-> <<"template/", "scripts/", "b.py">>,
       runtime_id |-> 7, timeout |-> 60, schedule |-> "* * * * 5",
       attachments |-> <<"report/1.txt", "report/2.txt">>] }

DefsOf(k) == CASE k = "create_env" -> CreateEnvDefs
               [] k = "job_a" -> JobADefs
               [] k = "job_b" -> JobBDefs

\* Sequences of distinct job keys, between 1 and MaxJobs long
RECURSIVE KeyOrders(_)
KeyOrders(n) ==
    IF n = 0 THEN {<<>>}
    ELSE LET shorter == KeyOrders(n - 1)
         IN  shorter \cup
             {Append(s, k) : <<s, k>> \in
                 {p \in shorter \X JobKeys : p[2] \notin Range(p[1])
                                              /\ Len(p[1]) = n - 1}}

\* The jobs mappings a configuration file may hold
Configs ==
    UNION { { [order |-> o, defs |-> d] :
                d \in {f \in [Range(o) -> UNION {DefsOf(k) : k \in JobKeys}] :
                          \A k \in Range(o) : f[k] \in DefsOf(k)} }
            : o \in KeyOrders(MaxJobs) \ {<<>>} }

NoConfig == [order |-> <<>>, defs |-> EmptyDict]

\* The variables of os.environ the scripts read
Credentials == {"CML_API_HOST", "CML_API_KEY", "CML_PROJECT_ID"}
DefaultVars == {"DEFAULT_CPU", "DEFAULT_MEMORY", "DEFAULT_TIMEOUT", "CML_RUNTIME_ID"}

EnvValue(v) == CASE v = "DEFAULT_CPU" -> "4"
                 [] v = "DEFAULT_MEMORY" -> "8"
                 [] v = "DEFAULT_TIMEOUT" -> "120"
                 [] v = "CML_RUNTIME_ID" -> "rt-default"
                 [] OTHER -> "set"

\* Batch-wide defaults: none, all, or exactly one of them
DefaultSets == {{}, DefaultVars} \cup {{v} : v \in DefaultVars}

\* A credential is unset, set to the empty string, or set; batch-wide
\* defaults are drawn only with all three credentials set
Environs ==
    { [v \in c \cup d |-> IF v \in e THEN "" ELSE EnvValue(v)] :
        <<c, e, d>> \in {p \in (SUBSET Credentials) \X (SUBSET Credentials)
                                \X DefaultSets :
                           /\ p[2] \subseteq p[1]
                           /\ (p[1] = Credentials /\ p[2] = {}) \/ p[3] = {}} }

TemplateDirs == {"template", "proj"}

\* The places a jobs_config.yaml may be at: <cwd>/config,
\* <cwd>/<template_dir>/config and <parent of cwd>/config
Locations == {"cwd/config", "cwd/template_dir/config", "parent/config"}

\* A file that yaml.safe_load reads and that has a 'jobs' mapping
ValidFile(jobs) == [valid |-> TRUE, jobs |-> jobs]

\* A file that is not YAML or has no 'jobs' mapping
InvalidFile == [valid |-> FALSE, jobs |-> NoConfig]

\* A one-job configuration that tells the three locations apart by the
\* job's name
SmallConfig(loc) ==
    [order |-> <<"job_a">>,
     defs |-> [k \in {"job_a"} |->
                 [name |-> loc, script |-> <<"scripts/", "a.py">>,
                  runtime_id |-> 7, environment |-> XEnv]]]

\* The usual layout: one valid file at <cwd>/config, holding any configuration
UsualFileSystems ==
    { [loc \in {"cwd/config"} |-> ValidFile(c)] : c \in Configs }

\* Every layout of the three locations: each is absent, holds its small
\* configuration, or holds an invalid file
OtherFileSystems ==
    UNION { { [loc \in S |-> IF loc \in bad THEN InvalidFile
                              ELSE ValidFile(SmallConfig(loc))] :
                bad \in SUBSET S }
            : S \in SUBSET Locations }

-----------------------------------------------------------------------------
(* run_jobs.py: translation of one job definition into a request *)

\* Is os.environ variable v missing or empty (falsy after os.environ.get)?
Falsy(v) == v \notin DOMAIN environ \/ environ[v] = ""

\* run_jobs.py:66-84.  A shallow copy of the definition whose script, when
\* it starts with "template/", has every "template/" replaced.
adjust_job_paths(job_config) ==
    IF "script" \in DOMAIN job_config
       /\ job_config.script # <<>>
       /\ Head(job_config.script) = "template/"
    THEN [job_config EXCEPT !.script =
            [i \in DOMAIN job_config.script |->
                IF job_config.script[i] = "template/"
                THEN template_dir \o "/"
                ELSE job_config.script[i]]]
    ELSE job_config

\* hasattr(job_body, a).  cmlapi.CreateJobRequest is not part of the
\* repository, and setup_jobs presumes both behaviours of it: the hasattr
\* tests (run_jobs.py:164, 226, 253-259) presume that an attribute is absent
\* until it is set, the unguarded read of run_jobs.py:250 that it is there
\* from the start.  Either may be the case (attrsPreset); a preset attribute
\* holds None until it is set.
HasAttr(body, a) == attrsPreset \/ a \in DOMAIN body

\* name, script, kernel (run_jobs.py:195-197, 136-138)
BasicFields(job_config) ==
    [name |-> job_config.name,
     script |-> job_config.script,
     kernel |-> Get(job_config, "kernel", "python3")]

\* runtime identifier (run_jobs.py:200-203, 141-144)
WithRuntime(body, job_config) ==
    IF "runtime_id" \in DOMAIN job_config
    THEN DictSet(body, "runtime_identifier", IntStr(job_config.runtime_id))
    ELSE IF ~Falsy("CML_RUNTIME_ID")
    THEN DictSet(body, "runtime_identifier", environ["CML_RUNTIME_ID"])
    ELSE body

\* Mutant of Resolve: the batch-wide default wins over the declared value
Resolve_DefaultFirst(job_config, field, var, fallback) ==
    IF var \in DOMAIN environ
    THEN environ[var]
    ELSE IF field \in DOMAIN job_config THEN IntStr(job_config[field])
    ELSE fallback

\* str(job_config.get(field, os.environ.get(var, fallback)))
Resolve(job_config, field, var, fallback) ==
    IF field \in DOMAIN job_config
    THEN IntStr(job_config[field])
    ELSE Get(environ, var, fallback)

\* Mutant of WithResources: the timeout falls back to 300
WithResources_Timeout300(body, job_config) ==
    LET b1 == DictSet(body, "cpu",
                      Resolve(job_config, "cpu", "DEFAULT_CPU", "1"))
        b2 == DictSet(b1, "memory",
                      Resolve(job_config, "memory", "DEFAULT_MEMORY", "2"))
        b3 == IF "nvidia_gpu" \in DOMAIN job_config
              THEN DictSet(b2, "nvidia_gpu", job_config.nvidia_gpu)
              ELSE b2
    IN  DictSet(b3, "timeout",
                Resolve(job_config, "timeout", "DEFAULT_TIMEOUT", "300"))

\* cpu, memory, nvidia_gpu, timeout (run_jobs.py:209-215, 147-153)
WithResources(body, job_config) ==
    LET b1 == DictSet(body, "cpu",
                      Resolve(job_config, "cpu", "DEFAULT_CPU", "1"))
        b2 == DictSet(b1, "memory",
                      Resolve(job_config, "memory", "DEFAULT_MEMORY", "2"))
        b3 == IF "nvidia_gpu" \in DOMAIN job_config
              THEN DictSet(b2, "nvidia_gpu", job_config.nvidia_gpu)
              ELSE b2
    IN  DictSet(b3, "timeout",
                Resolve(job_config, "timeout", "DEFAULT_TIMEOUT", "3600"))

\* arguments (run_jobs.py:218-219, 156-157)
WithArguments(body, job_config) ==
    IF "arguments" \in DOMAIN job_config
    THEN DictSet(body, "arguments", job_config.arguments)
    ELSE body

\* run_jobs.py:222-228, 160-166.  The request's environment is the declared
\* dict itself (not a copy), or a new empty dict when the request has no
\* such attribute; TEMPLATE_DIR is then stored into it.
EnvRaises(body, job_config) ==
    "environment" \notin DOMAIN job_config /\ HasAttr(body, "environment")

RequestEnv(job_config) ==
    DictSet(Get(job_config, "environment", EmptyDict),
            "TEMPLATE_DIR", template_dir)

WithEnvironment(body, job_config) ==
    DictSet(body, "environment", RequestEnv(job_config))

\* attachments (run_jobs.py:231-232)
WithAttachments(body, job_config) ==
    IF "attachments" \in DOMAIN job_config
    THEN DictSet(body, "attachments", job_config.attachments)
    ELSE body

\* schedule or parent (run_jobs.py:235-243)
ParentUnresolved(job_config, idmap) ==
    /\ "schedule" \notin DOMAIN job_config
    /\ "parent_job_id" \in DOMAIN job_config
    /\ job_config.parent_job_id \notin DOMAIN idmap

\* Mutant of WithScheduling: the parent's key is attached, not looked up
WithScheduling_Key(body, job_config, idmap) ==
    IF "schedule" \in DOMAIN job_config
    THEN DictSet(body, "schedule", job_config.schedule)
    ELSE IF "parent_job_id" \in DOMAIN job_config
            /\ job_config.parent_job_id \in DOMAIN idmap
    THEN DictSet(body, "parent_job_id", job_config.parent_job_id)
    ELSE body

WithScheduling(body, job_config, idmap) ==
    IF "schedule" \in DOMAIN job_config
    THEN DictSet(body, "schedule", job_config.schedule)
    ELSE IF "parent_job_id" \in DOMAIN job_config
            /\ job_config.parent_job_id \in DOMAIN idmap
    THEN DictSet(body, "parent_job_id", idmap[job_config.parent_job_id])
    ELSE body

\* The request of the bootstrap job, run_jobs.py:133-166
BootstrapRequest(job_config) ==
    WithEnvironment(
      WithArguments(
        WithResources(
          WithRuntime(BasicFields(job_config), job_config),
          job_config),
        job_config),
      job_config)

\* The request of any other job, run_jobs.py:192-243
JobRequest(job_config, idmap) ==
    WithScheduling(
      WithAttachments(
        WithEnvironment(
          WithArguments(
            WithResources(
              WithRuntime(BasicFields(job_config), job_config),
              job_config),
            job_config),
          job_config),
        job_config),
      job_config, idmap)

\* The loaded mapping after the request's environment was written to: the
\* declared dict is shared with the request, so the store shows in it.
ConfigAfterEnv(cfg, k) ==
    IF "environment" \in DOMAIN cfg.defs[k]
    THEN [cfg EXCEPT !.defs[k].environment = RequestEnv(cfg.defs[k])]
    ELSE cfg

\* The identifier the platform assigns at its n-th successful creation
JobId(n) == "job-" \o IntStr(n)

-----------------------------------------------------------------------------
(* Initial state: the script is started on some environment and file *)

Init ==
    /\ prog \in {"setup_jobs", "test_run_jobs"}
    /\ environ \in Environs
    /\ template_dir \in TemplateDirs
    /\ attrsPreset \in BOOLEAN
    /\ prog = "test_run_jobs" =>
          /\ environ = EmptyDict
          /\ template_dir = "template"
          /\ attrsPreset = FALSE
    /\ fs \in UsualFileSystems \cup OtherFileSystems
    /\ fs \notin UsualFileSystems =>
          /\ prog = "setup_jobs" =>
                environ = [v \in Credentials |-> EnvValue(v)]
          /\ template_dir = "template"
          /\ attrsPreset = FALSE
    /\ config_path = ""
    /\ exit_status = -1
    /\ JOBS_CONFIG = NoConfig
    /\ pc = IF prog = "setup_jobs" THEN "start" ELSE "load_config"
    /\ idx = 0
    /\ job_key = ""
    /\ job_body = EmptyDict
    /\ job_id_map = EmptyDict
    /\ processed = <<>>
    /\ calls = <<>>
    /\ starts = <<>>
    /\ warnings = <<>>
    /\ errors = <<>>
    /\ job_order = <<>>
    /\ job_results = EmptyDict
    /\ result = [kind |-> "running"]

-----------------------------------------------------------------------------
(* run_jobs.py: setup_jobs *)

\* Mutant of MissingCredentials: an empty value counts as present
MissingCredentials_Unset ==
    SelectSeq(<<"CML_API_HOST", "CML_API_KEY", "CML_PROJECT_ID">>,
              LAMBDA v : v \notin DOMAIN environ)

\* The mandatory variables that are missing, in the order they are tested
\* (run_jobs.py:102-108)
MissingCredentials ==
    SelectSeq(<<"CML_API_HOST", "CML_API_KEY", "CML_PROJECT_ID">>, Falsy)

\* run_jobs.py:94-112
CheckCredentials ==
    /\ prog = "setup_jobs"
    /\ pc = "start"
    /\ IF MissingCredentials # <<>>
       THEN /\ pc' = "raised"
            /\ result' = [kind |-> "ValueError", missing |-> MissingCredentials]
       ELSE /\ pc' = "load_config"
            /\ UNCHANGED result
    /\ UNCHANGED <<prog, environ, template_dir, attrsPreset, fs, config_path, exit_status,
                   JOBS_CONFIG, idx, job_key, job_body, job_id_map, processed,
                   calls, starts, warnings, errors, job_order, job_results>>

\* Mutant of possible_paths: the parent directory before the template one
possible_paths_ParentFirst ==
    IF prog = "setup_jobs"
    THEN <<"cwd/config", "parent/config", "cwd/template_dir/config">>
    ELSE <<"cwd/config", "parent/config">>

\* The candidate locations, in the order they are examined
\* (run_jobs.py:41-48, test_run_jobs.py:22-25)
possible_paths ==
    IF prog = "setup_jobs"
    THEN <<"cwd/config", "cwd/template_dir/config", "parent/config">>
    ELSE <<"cwd/config", "parent/config">>

\* os.path.exists
Exists(path) == path \in DOMAIN fs

\* An exception leaving load_config: setup_jobs lets it through
\* (run_jobs.py:115), test_run_jobs catches it and returns False
\* (test_run_jobs.py:206-208)
LoadRaises(kind) ==
    IF prog = "setup_jobs"
    THEN /\ pc' = "raised"
         /\ result' = [kind |-> kind, attempted |-> possible_paths]
    ELSE /\ pc' = "done"
         /\ result' = [kind |-> "return", value |-> FALSE, caught |-> kind,
                       attempted |-> possible_paths]

\* run_jobs.py:115 (load_config, run_jobs.py:30-64) and
\* test_run_jobs.py:102 (load_config, test_run_jobs.py:13-41)
LoadConfig ==
    /\ pc = "load_config"
    /\ LET found == SelectSeq(possible_paths, Exists)
       IN  IF found = <<>>
           THEN /\ LoadRaises("FileNotFoundError")
                /\ UNCHANGED <<config_path, JOBS_CONFIG>>
           ELSE /\ config_path' = found[1]
                /\ IF fs[found[1]].valid
                   THEN /\ JOBS_CONFIG' = fs[found[1]].jobs
                        /\ pc' = IF prog = "setup_jobs" THEN "bootstrap"
                                  ELSE "order"
                        /\ UNCHANGED result
                   ELSE /\ LoadRaises("ConfigError")
                        /\ UNCHANGED JOBS_CONFIG
    /\ UNCHANGED <<prog, environ, template_dir, attrsPreset, fs, exit_status,
                   idx, job_key, job_body, job_id_map, processed, calls,
                   starts, warnings, errors, job_order, job_results>>

\* run_jobs.py:125, the test failing: there is no bootstrap job
BootstrapAbsent ==
    /\ pc = "bootstrap"
    /\ BOOTSTRAP \notin DOMAIN JOBS_CONFIG.defs
    /\ pc' = "loop"
    /\ idx' = 1
    /\ UNCHANGED <<prog, environ, template_dir, attrsPreset, fs, config_path, exit_status,
                   JOBS_CONFIG, job_key, job_body, job_id_map, processed,
                   calls, starts, warnings, errors, job_order, job_results,
                   result>>

\* run_jobs.py:125-166: the bootstrap job's request is built
BootstrapTranslate ==
    /\ pc = "bootstrap"
    /\ BOOTSTRAP \in DOMAIN JOBS_CONFIG.defs
    /\ LET job_config == adjust_job_paths(JOBS_CONFIG.defs[BOOTSTRAP])
           partial == WithArguments(
                        WithResources(
                          WithRuntime(BasicFields(job_config), job_config),
                          job_config),
                        job_config)
       IN  /\ job_key' = BOOTSTRAP
           /\ processed' = Append(processed, BOOTSTRAP)
           /\ IF EnvRaises(partial, job_config)
              THEN /\ job_body' = partial
                   /\ pc' = "raised"
                   /\ result' = [kind |-> "TypeError"]
                   /\ UNCHANGED JOBS_CONFIG
              ELSE /\ job_body' = BootstrapRequest(job_config)
                   /\ JOBS_CONFIG' = ConfigAfterEnv(JOBS_CONFIG, BOOTSTRAP)
                   /\ pc' = "bootstrap_create"
                   /\ UNCHANGED result
    /\ UNCHANGED <<prog, environ, template_dir, attrsPreset, fs, config_path, exit_status, idx,
                   job_id_map, calls, starts, warnings, errors, job_order,
                   job_results>>

\* Mutant of Recorded: the entry is written whether or not the call returned
Recorded_Always(idmap, k, ok, id) == DictSet(idmap, k, id)

\* job_id_map after a create call: the assignment of run_jobs.py:172, 262
\* is reached only when client.create_job returned
Recorded(idmap, k, ok, id) == IF ok THEN DictSet(idmap, k, id) ELSE idmap

\* Where setup_jobs goes on when the bootstrap job's creation or start
\* raised: the except clause prints and falls through to the loop
\* (run_jobs.py:179-183)
AfterBootstrapError == "loop"

\* Mutant of StartReached: the start call is made after a failed creation
StartReached_Always(ok) == TRUE

\* Is client.start_job (run_jobs.py:177) reached after the create call?  It
\* follows create_job inside the same try, so only when that returned
StartReached(ok) == ok

\* run_jobs.py:168-173, 179-180: client.create_job for the bootstrap job
BootstrapCreate ==
    /\ pc = "bootstrap_create"
    /\ \E ok \in BOOLEAN :
         LET id == JobId(Cardinality(DOMAIN job_id_map) + 1) IN
         /\ calls' = Append(calls, [key |-> job_key, body |-> job_body,
                                    ok |-> ok, id |-> IF ok THEN id ELSE ""])
         /\ job_id_map' = Recorded(job_id_map, job_key, ok, id)
         /\ IF StartReached(ok)
            THEN /\ pc' = "bootstrap_start"
                 /\ UNCHANGED <<errors, idx>>
            ELSE /\ errors' = Append(errors, job_key)
                 /\ pc' = AfterBootstrapError
                 /\ idx' = 1
    /\ UNCHANGED <<prog, environ, template_dir, attrsPreset, fs, config_path, exit_status,
                   JOBS_CONFIG, job_key, job_body, processed, starts,
                   warnings, job_order, job_results, result>>

\* run_jobs.py:175-180: client.start_job for the bootstrap job
BootstrapStart ==
    /\ pc = "bootstrap_start"
    /\ \E ok \in BOOLEAN :
         /\ starts' = Append(starts, [id |-> calls[Len(calls)].id, ok |-> ok])
         /\ IF ok
            THEN /\ pc' = "loop"
                 /\ UNCHANGED errors
            ELSE /\ errors' = Append(errors, job_key)
                 /\ pc' = AfterBootstrapError
    /\ idx' = 1
    /\ UNCHANGED <<prog, environ, template_dir, attrsPreset, fs, config_path, exit_status,
                   JOBS_CONFIG, job_key, job_body, job_id_map, processed,
                   calls, warnings, job_order, job_results, result>>

\* The warnings of one translation (run_jobs.py:204-206, 242-243)
RuntimeWarning(k, body) ==
    IF "runtime_identifier" \in DOMAIN body THEN <<>>
    ELSE <<[kind |-> "no_runtime", key |-> k]>>

ParentWarning(k, job_config, idmap) ==
    IF ParentUnresolved(job_config, idmap)
    THEN <<[kind |-> "parent_not_found", key |-> k]>>
    ELSE <<>>

\* run_jobs.py:187-243: the request of job k is built
TranslateJob(k) ==
    /\ LET job_config == adjust_job_paths(JOBS_CONFIG.defs[k])
           partial == WithArguments(
                        WithResources(
                          WithRuntime(BasicFields(job_config), job_config),
                          job_config),
                        job_config)
       IN  /\ job_key' = k
           /\ processed' = Append(processed, k)
           /\ IF EnvRaises(partial, job_config)
              THEN /\ job_body' = partial
                   /\ warnings' = warnings \o RuntimeWarning(k, partial)
                   /\ pc' = "raised"
                   /\ result' = [kind |-> "TypeError"]
                   /\ UNCHANGED JOBS_CONFIG
              ELSE /\ job_body' = JobRequest(job_config, job_id_map)
                   /\ warnings' = warnings \o RuntimeWarning(k, partial)
                                     \o ParentWarning(k, job_config, job_id_map)
                   /\ JOBS_CONFIG' = ConfigAfterEnv(JOBS_CONFIG, k)
                   /\ pc' = "create"
                   /\ UNCHANGED result
    /\ UNCHANGED <<prog, environ, template_dir, attrsPreset, fs, config_path, exit_status, idx,
                   job_id_map, calls, starts, errors, job_order, job_results>>

\* Mutant of LoopSkip: without the continue of run_jobs.py:184-185 the
\* loop processes the bootstrap key like any other
LoopSkip_NoContinue ==
    /\ pc = "loop"
    /\ idx <= Len(JOBS_CONFIG.order)
    /\ JOBS_CONFIG.order[idx] = BOOTSTRAP
    /\ TranslateJob(BOOTSTRAP)

\* run_jobs.py:183-185: the loop passes over the bootstrap key
LoopSkip ==
    /\ pc = "loop"
    /\ idx <= Len(JOBS_CONFIG.order)
    /\ JOBS_CONFIG.order[idx] = BOOTSTRAP
    /\ idx' = idx + 1
    /\ UNCHANGED <<prog, environ, template_dir, attrsPreset, fs, config_path, exit_status,
                   JOBS_CONFIG, pc, job_key, job_body, job_id_map, processed,
                   calls, starts, warnings, errors, job_order, job_results,
                   result>>

\* run_jobs.py:183-243: the loop reaches the next job and builds its request
Translate ==
    /\ pc = "loop"
    /\ idx <= Len(JOBS_CONFIG.order)
    /\ JOBS_CONFIG.order[idx] # BOOTSTRAP
    /\ TranslateJob(JOBS_CONFIG.order[idx])

\* run_jobs.py:250: reading job_body.runtime_identifier raises
\* AttributeError when the attribute was never set and does not exist
PrintRaises(body) == ~HasAttr(body, "runtime_identifier")

\* run_jobs.py:246-265: client.create_job for the job
Create ==
    /\ pc = "create"
    /\ IF PrintRaises(job_body)
       THEN /\ errors' = Append(errors, job_key)
            /\ UNCHANGED <<calls, job_id_map>>
       ELSE \E ok \in BOOLEAN :
              LET id == JobId(Cardinality(DOMAIN job_id_map) + 1) IN
              /\ calls' = Append(calls, [key |-> job_key, body |-> job_body,
                                         ok |-> ok, id |-> IF ok THEN id ELSE ""])
              /\ job_id_map' = Recorded(job_id_map, job_key, ok, id)
              /\ errors' = IF ok THEN errors ELSE Append(errors, job_key)
    /\ pc' = "loop"
    /\ idx' = idx + 1
    /\ UNCHANGED <<prog, environ, template_dir, attrsPreset, fs, config_path, exit_status,
                   JOBS_CONFIG, job_key, job_body, processed, starts,
                   warnings, job_order, job_results, result>>

\* Mutant of ReturnValue: the map and the list of failed keys
ReturnValue_WithFailures(idmap, failed) ==
    [created |-> idmap, failures |-> failed]

\* What setup_jobs returns: the map alone (run_jobs.py:91-92, 267)
ReturnValue(idmap, failed) == idmap

\* run_jobs.py:267
Return ==
    /\ prog = "setup_jobs"
    /\ pc = "loop"
    /\ idx > Len(JOBS_CONFIG.order)
    /\ pc' = "done"
    /\ result' = [kind |-> "return", value |-> ReturnValue(job_id_map, errors)]
    /\ UNCHANGED <<prog, environ, template_dir, attrsPreset, fs, config_path, exit_status,
                   JOBS_CONFIG, idx, job_key, job_body, job_id_map, processed,
                   calls, starts, warnings, errors, job_order, job_results>>

-----------------------------------------------------------------------------
(* test_run_jobs.py: test_run_jobs *)

\* Mutant of JobOrder: bootstrap first, the others sorted by key
JobOrder_Sorted(jobs_config) ==
    (IF BOOTSTRAP \in DOMAIN jobs_config.defs THEN <<BOOTSTRAP>> ELSE <<>>)
    \o SelectSeq(<<"job_a", "job_b">>,
                 LAMBDA k : k \in DOMAIN jobs_config.defs)

\* test_run_jobs.py:108-115
JobOrder(jobs_config) ==
    (IF BOOTSTRAP \in DOMAIN jobs_config.defs THEN <<BOOTSTRAP>> ELSE <<>>)
    \o SelectSeq(jobs_config.order, LAMBDA k : k # BOOTSTRAP)

\* test_run_jobs.py:107-118
BuildOrder ==
    /\ pc = "order"
    /\ job_order' = JobOrder(JOBS_CONFIG)
    /\ pc' = "run"
    /\ idx' = 1
    /\ UNCHANGED <<prog, environ, template_dir, attrsPreset, fs, config_path, exit_status,
                   JOBS_CONFIG, job_key, job_body, job_id_map, processed,
                   calls, starts, warnings, errors, job_results, result>>

\* Mutant of Breaks: any failed job ends the loop
Breaks_Any(k, success) == ~success

\* test_run_jobs.py:175-181: does the loop stop after this job?
Breaks(k, success) == ~success /\ k = BOOTSTRAP

\* test_run_jobs.py:121-181: one job's script is run
RunJob ==
    /\ pc = "run"
    /\ idx <= Len(job_order)
    /\ \E success \in BOOLEAN :
         LET k == job_order[idx] IN
         /\ job_key' = k
         /\ processed' = Append(processed, k)
         /\ job_results' = DictSet(job_results, k, success)
         /\ IF Breaks(k, success)
            THEN pc' = "summary" /\ UNCHANGED idx
            ELSE idx' = idx + 1 /\ UNCHANGED pc
    /\ UNCHANGED <<prog, environ, template_dir, attrsPreset, fs, config_path, exit_status,
                   JOBS_CONFIG, job_body, job_id_map, calls, starts,
                   warnings, errors, job_order, result>>

\* Mutant of NoFailedJobs: one successful job is enough
NoFailedJobs_AnyPassed(results) ==
    \E k \in DOMAIN results : results[k]

\* len(failed_jobs) == 0 (test_run_jobs.py:186, 204)
NoFailedJobs(results) ==
    {k \in DOMAIN results : ~results[k]} = {}

\* test_run_jobs.py:183-204
Summary ==
    /\ \/ pc = "summary"
       \/ pc = "run" /\ idx > Len(job_order)
    /\ pc' = "done"
    /\ result' = [kind |-> "return",
                  value |-> NoFailedJobs(job_results)]
    /\ UNCHANGED <<prog, environ, template_dir, attrsPreset, fs, config_path, exit_status,
                   JOBS_CONFIG, idx, job_key, job_body, job_id_map, processed,
                   calls, starts, warnings, errors, job_order, job_results>>

-----------------------------------------------------------------------------

\* run_jobs.py:269-282 and test_run_jobs.py:210-219: the process ends.
\* run_jobs exits 1 on ValueError, the interpreter exits 1 on any other
\* uncaught exception and 0 when the script runs to its end; test_run_jobs
\* exits 0 exactly when test_run_jobs() returned True
Exit ==
    /\ pc \in {"done", "raised"}
    /\ exit_status = -1
    /\ exit_status' = IF prog = "setup_jobs"
                      THEN IF pc = "done" THEN 0 ELSE 1
                      ELSE IF result.value THEN 0 ELSE 1
    /\ UNCHANGED <<prog, environ, template_dir, attrsPreset, fs, config_path,
                   JOBS_CONFIG, pc, idx, job_key, job_body, job_id_map,
                   processed, calls, starts, warnings, errors, job_order,
                   job_results, result>>

Next ==
    \/ CheckCredentials
    \/ LoadConfig
    \/ BootstrapAbsent
    \/ BootstrapTranslate
    \/ BootstrapCreate
    \/ BootstrapStart
    \/ LoopSkip
    \/ Translate
    \/ Create
    \/ Return
    \/ BuildOrder
    \/ RunJob
    \/ Summary
    \/ Exit

Spec == Init /\ [][Next]_vars

\* The script is a sequential program: it takes its next step
FairSpec == Spec /\ WF_vars(Next)

-----------------------------------------------------------------------------
(* Properties *)

\* The definition of job k as the configuration file declares it
\* The jobs mapping of the file the loader chose, as it is on disk
config_file ==
    IF config_path \in DOMAIN fs /\ fs[config_path].valid
    THEN fs[config_path].jobs
    ELSE NoConfig

Declared(k) == config_file.defs[k]

\* The create_job calls made for job k
CallsFor(k) == {i \in DOMAIN calls : calls[i].key = k}

NonBootstrap(s) == SelectSeq(s, LAMBDA k : k # BOOTSTRAP)

HasBootstrap == BOOTSTRAP \in DOMAIN config_file.defs

\* C1: in setup_jobs, when the create call of the bootstrap job fails, the
\* run aborts: no other job is translated or submitted afterwards and the
\* failure reaches the caller (setup_jobs does not return normally).
C1_BootstrapFailureAborts ==
    (prog = "setup_jobs" /\ calls # <<>>
        /\ calls[1].key = BOOTSTRAP /\ ~calls[1].ok)
    => /\ processed = <<BOOTSTRAP>>
       /\ Len(calls) = 1
       /\ result.kind # "return"

\* C2: in both scripts, when the configuration holds "create_env", that job
\* is the first one processed (first create call, first script run),
\* wherever it stands in the configuration, and it is processed once.
C2_BootstrapFirstOnce ==
    HasBootstrap =>
       /\ processed # <<>> => processed[1] = BOOTSTRAP
       /\ \A i \in DOMAIN processed : i > 1 => processed[i] # BOOTSTRAP
       /\ calls # <<>> => calls[1].key = BOOTSTRAP
       /\ \A i \in DOMAIN calls : i > 1 => calls[i].key # BOOTSTRAP
       /\ job_order # <<>> => job_order[1] = BOOTSTRAP
       /\ \A i \in DOMAIN job_order : i > 1 => job_order[i] # BOOTSTRAP
       /\ pc = "done" => processed # <<>>

\* C2 witness: a bootstrap job declared last was created first
C2_Witness ==
    /\ prog = "setup_jobs"
    /\ pc = "done"
    /\ HasBootstrap
    /\ config_file.order[1] # BOOTSTRAP
    /\ Len(calls) >= 2
    /\ calls[1].key = BOOTSTRAP

\* o lists every key of the configuration once, the keys other than the
\* bootstrap key in their declared order
IsSubmissionOrder(o) ==
    /\ Len(o) = Len(config_file.order)
    /\ Range(o) = Range(config_file.order)
    /\ \A i, j \in DOMAIN o :
          (i < j /\ o[i] # BOOTSTRAP /\ o[j] # BOOTSTRAP)
          => IndexOf(config_file.order, o[i]) < IndexOf(config_file.order, o[j])
    /\ ~HasBootstrap => o = config_file.order

\* C3: the submission order holds every job key once, the non-bootstrap
\* keys in declared order (no reordering by parent); without "create_env"
\* it is the declared order.  The local runner's job_order is such an
\* order, setup_jobs has processed such an order when it returns, and at
\* any moment the jobs processed so far are a prefix of it.
C3_DeclaredOrder ==
    /\ job_order # <<>> => IsSubmissionOrder(job_order)
    /\ (prog = "setup_jobs" /\ pc = "done") => IsSubmissionOrder(processed)
    /\ LET nb == NonBootstrap(processed)
       IN  nb = SubSeq(NonBootstrap(config_file.order), 1, Len(nb))
    /\ (prog = "test_run_jobs" /\ job_order # <<>>)
          => processed = SubSeq(job_order, 1, Len(processed))

\* C3 witness: a job declared before its parent was submitted before it
C3_Witness ==
    /\ prog = "setup_jobs"
    /\ pc = "done"
    /\ processed = <<"job_a", "job_b">>
    /\ "parent_job_id" \in DOMAIN Declared("job_a")
    /\ Declared("job_a").parent_job_id = "job_b"
    /\ Len(calls) = 2

\* C4: failure isolation: whatever create calls fail among the non-bootstrap
\* jobs, every non-bootstrap job has got its create call when setup_jobs
\* returns.
C4_EveryJobCreated ==
    (prog = "setup_jobs" /\ pc = "done")
    => \A k \in Range(config_file.order) \ {BOOTSTRAP} : CallsFor(k) # {}

\* C5: a submitted request of a job that declares a parent P and no
\* schedule, P created successfully earlier in the run, carries as parent
\* reference the identifier returned for P.
C5_ParentResolved ==
    \A i \in DOMAIN calls :
       LET d == Declared(calls[i].key) IN
       (calls[i].key # BOOTSTRAP
          /\ "parent_job_id" \in DOMAIN d /\ "schedule" \notin DOMAIN d)
       => \A j \in 1..(i - 1) :
             (calls[j].key = d.parent_job_id /\ calls[j].ok)
             => /\ "parent_job_id" \in DOMAIN calls[i].body
                /\ calls[i].body.parent_job_id = calls[j].id

\* C5 witness: job_a was submitted with the identifier returned for its
\* parent, the first job created
C5_Witness ==
    \E i \in DOMAIN calls :
       /\ "parent_job_id" \in DOMAIN calls[i].body
       /\ calls[i].key = "job_a"
       /\ calls[1].ok
       /\ calls[i].body.parent_job_id = calls[1].id

\* Job k was processed and its processing is over
ProcessingOver(k) ==
    \E i \in DOMAIN processed :
       /\ processed[i] = k
       /\ i < Len(processed) \/ pc \in {"bootstrap_start", "loop", "done", "raised"}

\* The parent that job k declares had no recorded identifier when k was
\* processed: it is no key of the configuration, or it was processed later
\* (or is k itself), or its creation failed
ParentWasUnresolved(k) ==
    LET P == Declared(k).parent_job_id IN
    ~ \E j \in DOMAIN calls :
         /\ calls[j].key = P
         /\ calls[j].ok
         /\ IndexOf(processed, P) < IndexOf(processed, k)

\* C6: a job that declares a parent whose creation failed, that comes later
\* in the order (or is the job itself) or that is no key of the
\* configuration is still submitted when setup_jobs returns: one create
\* call was made for it, its request carries no parent reference, and a
\* warning was printed for it.
C6_UnresolvedParentStillSubmitted ==
    (prog = "setup_jobs" /\ pc = "done")
    => \A k \in Range(processed) \ {BOOTSTRAP} :
          ("parent_job_id" \in DOMAIN Declared(k)
             /\ "schedule" \notin DOMAIN Declared(k)
             /\ ParentWasUnresolved(k))
          => /\ \E i \in CallsFor(k) : "parent_job_id" \notin DOMAIN calls[i].body
             /\ [kind |-> "parent_not_found", key |-> k] \in Range(warnings)

\* Once a key is in job_id_map it stays, with the same value
MapOnlyGrows ==
    \A k \in DOMAIN job_id_map :
       k \in DOMAIN job_id_map' /\ job_id_map'[k] = job_id_map[k]

\* The keys of job_id_map are the jobs whose create call returned, each
\* with the identifier that call returned; a job whose call failed has none
MapIsSuccesses ==
    /\ DOMAIN job_id_map = {calls[i].key : i \in {j \in DOMAIN calls : calls[j].ok}}
    /\ \A i \in DOMAIN calls :
          IF calls[i].ok
          THEN job_id_map[calls[i].key] = calls[i].id
          ELSE calls[i].key \notin DOMAIN job_id_map

\* C7: in every reachable state of setup_jobs a key is in job_id_map exactly
\* when that job's creation succeeded, with the identifier returned for it;
\* a failed job has no entry; entries are never removed or overwritten.
C7_MapInvariant == [](MapIsSuccesses) /\ [][MapOnlyGrows]_vars

\* C7 witness: one creation failed, a later one succeeded
C7_Witness ==
    /\ Len(calls) = 2
    /\ ~calls[1].ok
    /\ calls[2].ok
    /\ DOMAIN job_id_map = {calls[2].key}

\* C8: cpu, memory and timeout of a submitted request are the job
\* definition's declared value (as str(value)) when it declares one, and
\* otherwise the batch-wide default DEFAULT_CPU / DEFAULT_MEMORY /
\* DEFAULT_TIMEOUT when that is set.
C8_ExplicitThenDefault ==
    \A i \in DOMAIN calls :
       LET d == Declared(calls[i].key)
           b == calls[i].body
       IN  /\ "cpu" \in DOMAIN d => b.cpu = IntStr(d.cpu)
           /\ "memory" \in DOMAIN d => b.memory = IntStr(d.memory)
           /\ "timeout" \in DOMAIN d => b.timeout = IntStr(d.timeout)
           /\ ("cpu" \notin DOMAIN d /\ "DEFAULT_CPU" \in DOMAIN environ)
                 => b.cpu = environ["DEFAULT_CPU"]
           /\ ("memory" \notin DOMAIN d /\ "DEFAULT_MEMORY" \in DOMAIN environ)
                 => b.memory = environ["DEFAULT_MEMORY"]
           /\ ("timeout" \notin DOMAIN d /\ "DEFAULT_TIMEOUT" \in DOMAIN environ)
                 => b.timeout = environ["DEFAULT_TIMEOUT"]

\* C8 witness: with a batch default for cpu, a job declaring cpu: 2 was
\* submitted with "2" and a job declaring none with the default
C8_Witness ==
    /\ "DEFAULT_CPU" \in DOMAIN environ
    /\ Len(calls) = 2
    /\ Declared(calls[1].key) = [name |-> "Job A",
                                 script |-> <<"template/", "scripts/", "a.py">>,
                                 cpu |-> 2]
    /\ calls[1].body.cpu = "2"
    /\ "cpu" \notin DOMAIN Declared(calls[2].key)
    /\ calls[2].body.cpu = environ["DEFAULT_CPU"]

\* A submitted request uses these values where the definition declares
\* none and no batch-wide default is set
UsesFallbacks(cpu, memory, timeout, kernel) ==
    \A i \in DOMAIN calls :
       LET d == Declared(calls[i].key)
           b == calls[i].body
       IN  /\ ("cpu" \notin DOMAIN d /\ "DEFAULT_CPU" \notin DOMAIN environ)
                 => b.cpu = cpu
           /\ ("memory" \notin DOMAIN d /\ "DEFAULT_MEMORY" \notin DOMAIN environ)
                 => b.memory = memory
           /\ ("timeout" \notin DOMAIN d /\ "DEFAULT_TIMEOUT" \notin DOMAIN environ)
                 => b.timeout = timeout
           /\ "kernel" \notin DOMAIN d => b.kernel = kernel

\* C9 as stated: without declared value and batch-wide default the request
\* uses cpu=1, memory=1, timeout=3600, kernel="python3".
C9_FallbacksAsStated == UsesFallbacks("1", "1", "3600", "python3")

\* C9 amended: the fallbacks are cpu=1, memory=2, timeout=3600,
\* kernel="python3".
C9_Fallbacks == UsesFallbacks("1", "2", "3600", "python3")

\* C9 witness: a request built from fallbacks alone was submitted
C9_Witness ==
    \E i \in DOMAIN calls :
       /\ DOMAIN Declared(calls[i].key) \cap {"cpu", "memory", "timeout", "kernel"} = {}
       /\ DOMAIN environ \cap {"DEFAULT_CPU", "DEFAULT_MEMORY", "DEFAULT_TIMEOUT"} = {}
       /\ calls[i].body.memory = "2"
       /\ calls[i].body.timeout = "3600"

\* env holds the declared entries of definition d and TEMPLATE_DIR
EnvIsUnion(env, d) ==
    LET decl == Get(d, "environment", EmptyDict) IN
    /\ DOMAIN env = DOMAIN decl \cup {"TEMPLATE_DIR"}
    /\ \A v \in DOMAIN decl \ {"TEMPLATE_DIR"} : env[v] = decl[v]
    /\ "TEMPLATE_DIR" \notin DOMAIN decl => env["TEMPLATE_DIR"] = template_dir

\* C10: the environment of every submitted request is the union of the
\* declared entries and TEMPLATE_DIR=<template dir>; a job that declares no
\* environment is still submitted, with exactly {TEMPLATE_DIR: <template dir>}.
C10_EnvironmentUnion ==
    /\ \A i \in DOMAIN calls :
          EnvIsUnion(calls[i].body.environment, Declared(calls[i].key))
    /\ \A k \in Range(processed) :
          (prog = "setup_jobs" /\ ProcessingOver(k)
             /\ "environment" \notin DOMAIN Declared(k))
          => \E i \in CallsFor(k) :
                calls[i].body.environment = [TEMPLATE_DIR |-> template_dir]

\* C11: a declared TEMPLATE_DIR entry wins over the injected one: the request
\* of a job that declares environment entry TEMPLATE_DIR=v carries
\* TEMPLATE_DIR=v, not the batch-wide template directory.
C11_DeclaredWins ==
    \A i \in DOMAIN calls :
       LET decl == Get(Declared(calls[i].key), "environment", EmptyDict)
       IN  "TEMPLATE_DIR" \in DOMAIN decl
           => calls[i].body.environment["TEMPLATE_DIR"] = decl["TEMPLATE_DIR"]

\* C12: no submitted request carries both a schedule and a parent reference:
\* a declared schedule is carried unchanged and without parent reference,
\* and a parent reference is attached only when no schedule is declared.
C12_ScheduleXorParent ==
    \A i \in DOMAIN calls :
       LET d == Declared(calls[i].key)
           body == calls[i].body
       IN  /\ ~({"schedule", "parent_job_id"} \subseteq DOMAIN body)
           /\ "schedule" \in DOMAIN d
              => /\ "schedule" \in DOMAIN body
                 /\ body.schedule = d.schedule
                 /\ "parent_job_id" \notin DOMAIN body
           /\ "parent_job_id" \in DOMAIN body => "schedule" \notin DOMAIN d

\* The mandatory variables that are unset or set to the empty string
MissingOrEmpty ==
    {c \in {"CML_API_HOST", "CML_API_KEY", "CML_PROJECT_ID"} :
        c \notin DOMAIN environ \/ environ[c] = ""}

\* C13: if a mandatory variable is missing or empty, setup_jobs fails before
\* the configuration is loaded and before any create call, the error names
\* exactly the missing variables, and the process exits with status 1; the
\* error is raised in no other case.
C13_MissingCredentialsFailFast ==
    prog = "setup_jobs" =>
       /\ (MissingOrEmpty # {} /\ pc # "start")
          => /\ pc = "raised"
             /\ result.kind = "ValueError"
             /\ Range(result.missing) = MissingOrEmpty
             /\ Len(result.missing) = Cardinality(MissingOrEmpty)
             /\ config_path = ""
             /\ JOBS_CONFIG = NoConfig
             /\ processed = <<>>
             /\ calls = <<>>
             /\ starts = <<>>
             /\ exit_status \in {-1, 1}
       /\ result.kind = "ValueError" => MissingOrEmpty # {}

\* One variable unset, one empty, one set: the error was raised
C13_Witness ==
    /\ pc = "raised"
    /\ result.kind = "ValueError"
    /\ Len(result.missing) = 2
    /\ \E c \in DOMAIN environ : c \in Range(result.missing) /\ environ[c] = ""
    /\ \E c \in Range(result.missing) : c \notin DOMAIN environ
    /\ exit_status = 1

\* C14: each job key gets at most one create call per run, and when
\* setup_jobs returns normally each job key got exactly one.
C14_OneCreateCallPerJob ==
    prog = "setup_jobs" =>
       /\ \A k \in JobKeys : Cardinality(CallsFor(k)) <= 1
       /\ pc = "done"
          => \A k \in Range(config_file.order) : Cardinality(CallsFor(k)) = 1

\* C15: the loaded job configuration is immutable during a run: once loaded,
\* every job definition (script path and environment mapping included) stays
\* equal to what the configuration file holds.
C15_ConfigImmutable ==
    prog = "setup_jobs" =>
       \/ JOBS_CONFIG = NoConfig
       \/ /\ JOBS_CONFIG.order = config_file.order
          /\ \A k \in Range(JOBS_CONFIG.order) :
                JOBS_CONFIG.defs[k] = config_file.defs[k]

\* The keys of the failures setup_jobs returned beside the map
ReturnedFailures ==
    IF "failures" \in DOMAIN result THEN Range(result.failures) ELSE {}

\* The map setup_jobs returned
ReturnedMap == result.value

PreSubmissionError ==
    result.kind \in {"ValueError", "FileNotFoundError", "ConfigError"}

\* The translation, the creation or the start of the bootstrap job failed
BootstrapFailed ==
    \/ BOOTSTRAP \in Range(errors)
    \/ result.kind = "TypeError" /\ job_key = BOOTSTRAP

\* C18: the run_jobs process exits with a nonzero status exactly when a
\* pre-submission error or a failure of the bootstrap job occurred; with
\* failures of other jobs only, it exits 0 having returned the map.
C18_ExitStatus ==
    (prog = "setup_jobs" /\ exit_status # -1)
    => /\ exit_status # 0 <=> (PreSubmissionError \/ BootstrapFailed)
       /\ exit_status = 0 => result = [kind |-> "return", value |-> job_id_map]

\* setup_jobs has called load_config
LoadAttempted ==
    /\ prog = "setup_jobs"
    /\ pc \notin {"start", "load_config"}
    /\ result.kind # "ValueError"

C20_LocalBootstrapAbort ==
    prog = "test_run_jobs" =>
       /\ (BOOTSTRAP \in DOMAIN job_results /\ ~job_results[BOOTSTRAP])
          => /\ DOMAIN job_results = {BOOTSTRAP}
             /\ processed = <<BOOTSTRAP>>
       /\ (pc = "done" /\ job_order # <<>>
             /\ ~(BOOTSTRAP \in DOMAIN job_results /\ ~job_results[BOOTSTRAP]))
          => /\ processed = job_order
             /\ DOMAIN job_results = Range(config_file.order)

\* create_env failed with another job still in the order, which was not run
C20_Witness ==
    /\ prog = "test_run_jobs"
    /\ pc = "done"
    /\ Len(job_order) = 2
    /\ processed = <<BOOTSTRAP>>
    /\ ~job_results[BOOTSTRAP]
    /\ result = [kind |-> "return", value |-> FALSE]

\* A job the local runner ran has failed
SomeRunJobFailed == \E i \in DOMAIN processed : ~job_results[processed[i]]

\* C21: test_run_jobs returns True, and the process exits with status 0,
\* exactly when the configuration was loaded and no job that was run failed;
\* it returns False when a run job failed, the bootstrap abort included, and
\* when loading the configuration raised.
C21_LocalRunnerResult ==
    (prog = "test_run_jobs" /\ pc = "done")
    => /\ result.kind = "return"
       /\ result.value <=> (JOBS_CONFIG # NoConfig /\ ~SomeRunJobFailed)
       /\ JOBS_CONFIG = NoConfig => (processed = <<>> /\ ~result.value)
       /\ exit_status # -1 => (exit_status = 0 <=> result.value)
       /\ exit_status \in {-1, 0, 1}

\* The first job passed, the second failed, and the process exited with 1
C21_Witness ==
    /\ prog = "test_run_jobs"
    /\ pc = "done"
    /\ Len(processed) = 2
    /\ job_results[processed[1]]
    /\ ~job_results[processed[2]]
    /\ result = [kind |-> "return", value |-> FALSE]
    /\ exit_status = 1

\* C22: translation is uniform across jobs: a declared schedule and declared
\* attachments are in the request unchanged whether or not the job is the
\* bootstrap job, and the request of the bootstrap job is what the rules of
\* any other job give for its definition.
C22_UniformTranslation ==
    \A i \in DOMAIN calls :
       LET d == Declared(calls[i].key)
           body == calls[i].body
       IN  /\ "attachments" \in DOMAIN d
              => /\ "attachments" \in DOMAIN body
                 /\ body.attachments = d.attachments
           /\ "schedule" \in DOMAIN d
              => /\ "schedule" \in DOMAIN body
                 /\ body.schedule = d.schedule
           /\ calls[i].key = BOOTSTRAP
              => body = JobRequest(adjust_job_paths(d), EmptyDict)

\* C23: adjust_job_paths rewrites only the leading placeholder: the script of
\* a request is <template dir>/rest when the declared script is
\* template/rest, with rest unchanged; a declared script that does not start
\* with template/ is carried unchanged; and with the template directory
\* "template" every script is carried unchanged.
C23_LeadingPlaceholderOnly ==
    \A i \in DOMAIN calls :
       LET script == Declared(calls[i].key).script
           sent == calls[i].body.script
       IN  /\ Head(script) = "template/"
              => sent = <<template_dir \o "/">> \o Tail(script)
           /\ Head(script) # "template/" => sent = script
           /\ template_dir = "template" => sent = script

\* The runtime identifier the request of job k is to carry: the declared
\* one, else the batch-wide one, else none ("")
ExpectedRuntime(k) ==
    IF "runtime_id" \in DOMAIN Declared(k)
    THEN IntStr(Declared(k).runtime_id)
    ELSE IF "CML_RUNTIME_ID" \in DOMAIN environ
    THEN environ["CML_RUNTIME_ID"]
    ELSE ""

\* C24: a request carries the declared runtime_id, else CML_RUNTIME_ID; a
\* job with neither gets a warning and is still submitted: when setup_jobs
\* returns its create call was made, with a request that carries no runtime
\* identifier.
C24_RuntimeResolution ==
    /\ \A i \in DOMAIN calls :
          IF ExpectedRuntime(calls[i].key) = ""
          THEN "runtime_identifier" \notin DOMAIN calls[i].body
          ELSE /\ "runtime_identifier" \in DOMAIN calls[i].body
               /\ calls[i].body.runtime_identifier
                     = ExpectedRuntime(calls[i].key)
    /\ \A k \in Range(processed) \ {BOOTSTRAP} :
          (prog = "setup_jobs" /\ pc = "done" /\ ExpectedRuntime(k) = "")
          => /\ \E w \in Range(warnings) :
                   w.kind = "no_runtime" /\ w.key = k
             /\ CallsFor(k) # {}

\* What holds of the start calls in every state: at most one was made, by
\* setup_jobs, for the identifier that the successful create call of the
\* bootstrap job returned and job_id_map records
StartOnlyBootstrap ==
    /\ Len(starts) <= 1
    /\ starts # <<>>
       => /\ prog = "setup_jobs"
          /\ calls # <<>>
          /\ calls[1].key = BOOTSTRAP
          /\ calls[1].ok
          /\ starts[1].id = calls[1].id
          /\ BOOTSTRAP \in DOMAIN job_id_map
          /\ job_id_map[BOOTSTRAP] = starts[1].id
          /\ \A i \in DOMAIN calls :
                calls[i].key # BOOTSTRAP => calls[i].id # starts[1].id
    /\ (\E i \in DOMAIN calls : calls[i].key = BOOTSTRAP /\ ~calls[i].ok)
       => starts = <<>>

\* A step that makes a start call: the bootstrap job is the only job
\* processed and created so far, and its identifier is already recorded
StartBeforeOtherJobs ==
    starts' # starts
    => /\ processed = <<BOOTSTRAP>>
       /\ Len(calls) = 1
       /\ calls[1].key = BOOTSTRAP /\ calls[1].ok
       /\ BOOTSTRAP \in DOMAIN job_id_map
       /\ job_id_map[BOOTSTRAP] = calls[1].id
       /\ calls' = calls

\* C25: client.start_job is called at most once per run, only for the
\* bootstrap job, only after its create call succeeded and its identifier
\* was recorded, and before any other job is created; never for another job
\* and never for a bootstrap job whose creation failed.
C25_StartOnceForBootstrap ==
    [](StartOnlyBootstrap) /\ [][StartBeforeOtherJobs]_vars

\* The bootstrap job was started and another job was created afterwards
C25_Witness ==
    /\ Len(starts) = 1
    /\ Len(calls) = 2
    /\ calls[2].key # BOOTSTRAP
    /\ calls[2].ok

====
